---- MODULE Spec2Model ----
(***************************************************************************)
(* The entity-component store of feather (quill/ecs/src/ecs.rs): the Ecs   *)
(* struct, its entity allocator, its per-type sparse-set storages and the  *)
(* reusable entity builder, as a state machine with one action per public  *)
(* operation; and the chunk map and coordinate conversions of             *)
(* core/src/world/mod.rs, each under a specification of its own.           *)
(*                                                                         *)
(* Entity indices are 0-based as in the source; TLA+ sequences are 1-based,*)
(* so the generation of index i is generations[i + 1] and a dense slot k   *)
(* of the source is position k + 1 of dense / backpointers.                *)
(***************************************************************************)
EXTENDS Integers, Sequences, FiniteSets, TLC

VARIABLES
    components,  \* Ecs.components: registered type -> its sparse-set storage
    entities,    \* Ecs.entities: the allocator (generations, free list)
    builder,     \* the caller's EntityBuilder: staged <<type, value>> entries
    issued,      \* history: every id a spawn call has returned
    despawned,   \* history: every id for which despawn returned Ok
    inserted,    \* history: <<e, T, v>> when the last call among insert::<T>(e, _),
                 \* remove::<T>(e), despawn(e) and the spawn that returned e was an
                 \* insert of v that returned Ok, or a spawn that put v on e
    fresh,       \* history: ids that came out of spawn_empty (called directly or
                 \* by the other spawns) and were not inserted on nor despawned since
    chunk_map,   \* ChunkMap.0: chunk position -> the chunk's blocks
    loaded,      \* history: chunk positions inserted and not removed since
    locks,       \* the RwLock of each chunk: its readers and its writer
    threads,     \* each thread's call on the chunk map and its position in it
    calc         \* the last call of a coordinate function: arguments and result

ecsVars == <<components, entities, builder, issued, despawned, inserted, fresh>>
worldVars == <<chunk_map, loaded, locks, threads, calc>>
vars == <<components, entities, builder, issued, despawned, inserted, fresh,
          chunk_map, loaded, locks, threads, calc>>

\* The world part while the entity store is being exercised: no chunk, no
\* thread, no call.
NoWorld ==
    /\ chunk_map = [c \in {} |-> 0]
    /\ loaded = {}
    /\ locks = [c \in {} |-> 0]
    /\ threads = [t \in {} |-> 0]
    /\ calc = [op |-> "none"]

\* ------------------------------------------------------------------ bounds

\* Number of distinct entity indices the allocator may hand out.
MaxEntities == 2
\* Highest generation an index may reach (caps the despawn counter).
MaxGeneration == 2
\* Most entries staged in the builder at one time.
MaxStaged == 2

\* Component types (ComponentTypeId) and component values.
Types == {"Position", "Health"}
Values == {1, 2}

\* ----------------------------------------------------------------- results

Ok == <<"Ok">>
OkVal(v) == <<"Ok", v>>
EntityDead == <<"Err", "EntityDead">>
MissingEntity == <<"Err", "MissingEntity(EntityDead)">>
MissingComponent == <<"Err", "MissingComponent">>

IsOk(r) == r[1] = "Ok"

EntityId(i, g) == [index |-> i, generation |-> g]

\* ------------------------------------------------- entity allocator (Entities)

EntitiesNew == [generations |-> <<>>, free |-> <<>>]

\* check_generation: the id's generation is the one stored for its index;
\* an index that was never allocated is dead.
check_generation(ents, id) ==
    /\ id.index < Len(ents.generations)
    /\ ents.generations[id.index + 1] = id.generation

\* allocate: reuse the most recently freed index with its stored generation,
\* or append a fresh index with generation 0.
allocate(ents) ==
    IF ents.free # <<>>
    THEN LET i == ents.free[Len(ents.free)]
         IN [id |-> EntityId(i, ents.generations[i + 1]),
             entities |-> [ents EXCEPT !.free = SubSeq(ents.free, 1, Len(ents.free) - 1)]]
    ELSE [id |-> EntityId(Len(ents.generations), 0),
          entities |-> [ents EXCEPT !.generations = Append(ents.generations, 0)]]

\* A generation is an unsigned 32-bit counter. It is kept as its 32 bits read
\* in two's complement: 0 .. 2^31 - 1 are themselves, 2^31 .. 2^32 - 1 are
\* -2^31 .. -1, so that the largest generation, 2^32 - 1, is -1.
I32Max == 2147483647
GenerationMax == -1

\* The increment of a generation, modulo 2^32.
generation_increment(g) == IF g = I32Max THEN (-I32Max) - 1 ELSE g + 1

\* deallocate that retires an index whose generation is the largest one: the
\* id dies, and the index is never handed out again.
deallocate_retiring(ents, id) ==
    IF ~check_generation(ents, id)
    THEN [ok |-> FALSE, entities |-> ents]
    ELSE IF ents.generations[id.index + 1] = GenerationMax
         THEN [ok |-> TRUE,
               entities |-> [ents EXCEPT !.generations[id.index + 1] = GenerationMax - 1]]
         ELSE [ok |-> TRUE,
               entities |-> [generations |-> [ents.generations EXCEPT ![id.index + 1] =
                                                 generation_increment(@)],
                             free |-> Append(ents.free, id.index)]]

\* deallocate: fails on a stale id; otherwise bumps the index's generation
\* and pushes the index on the free list.
deallocate(ents, id) ==
    IF ~check_generation(ents, id)
    THEN [ok |-> FALSE, entities |-> ents]
    ELSE [ok |-> TRUE,
          entities |-> [generations |-> [ents.generations EXCEPT ![id.index + 1] =
                                            generation_increment(@)],
                        free |-> Append(ents.free, id.index)]]

\* ------------------------------------------- sparse-set storage (one per type)

\* sparse: entity index -> dense position, defined on the occupied indices.
StorageNew == [sparse |-> [i \in {} |-> 0], dense |-> <<>>, backpointers |-> <<>>]

storage_get(s, index) ==
    IF index \in DOMAIN s.sparse THEN OkVal(s.dense[s.sparse[index]]) ELSE <<"None">>

storage_insert(s, index, value) ==
    IF index \in DOMAIN s.sparse
    THEN [s EXCEPT !.dense[s.sparse[index]] = value]
    ELSE [sparse |-> [i \in DOMAIN s.sparse \cup {index} |->
                         IF i = index THEN Len(s.dense) + 1 ELSE s.sparse[i]],
          dense |-> Append(s.dense, value),
          backpointers |-> Append(s.backpointers, index)]

\* insert_raw: the type-erased insert of the builder path; same slot logic.
storage_insert_raw(s, index, value) == storage_insert(s, index, value)

\* remove: swap-remove. The last dense element and its backpointer move into
\* the vacated slot, the moved entity's sparse entry is patched, the arrays are
\* truncated and the removed index's sparse entry is cleared.
storage_remove(s, index) ==
    IF index \notin DOMAIN s.sparse
    THEN [removed |-> FALSE, storage |-> s]
    ELSE LET k == s.sparse[index]
             n == Len(s.dense)
             moved == s.backpointers[n]
             dense1 == [s.dense EXCEPT ![k] = s.dense[n]]
             back1 == [s.backpointers EXCEPT ![k] = moved]
             sparse1 == [s.sparse EXCEPT ![moved] = k]
         IN [removed |-> TRUE,
             storage |-> [sparse |-> [i \in DOMAIN s.sparse \ {index} |-> sparse1[i]],
                          dense |-> SubSeq(dense1, 1, n - 1),
                          backpointers |-> SubSeq(back1, 1, n - 1)]]

\* ------------------------------------------------------------ the Ecs struct

EcsNew == [components |-> [t \in {} |-> StorageNew], entities |-> EntitiesNew]

\* check_entity that only looks whether the index was ever allocated.
check_entity_index_only(e, entity) ==
    IF entity.index < Len(e.entities.generations) THEN Ok ELSE EntityDead

check_entity(e, entity) ==
    IF check_generation(e.entities, entity) THEN Ok ELSE EntityDead

\* storage_for / storage_mut_for: the storage registered for T, if any.
storage_for(e, T) ==
    IF T \in DOMAIN e.components THEN OkVal(e.components[T]) ELSE MissingComponent

storage_mut_for(e, T) ==
    IF T \in DOMAIN e.components THEN OkVal(e.components[T]) ELSE MissingComponent

\* storage_or_insert_for: registers an empty storage for T when there is none.
storage_or_insert_for(e, T) ==
    IF T \in DOMAIN e.components
    THEN e.components
    ELSE [t \in DOMAIN e.components \cup {T} |->
             IF t = T THEN StorageNew ELSE e.components[t]]

storage_or_insert_for_untyped(e, component_meta) ==
    IF component_meta \in DOMAIN e.components
    THEN e.components
    ELSE [t \in DOMAIN e.components \cup {component_meta} |->
             IF t = component_meta THEN StorageNew ELSE e.components[t]]

\* get that does not check the entity.
get_unchecked(e, entity, T) ==
    LET storage == storage_for(e, T)
    IN IF ~IsOk(storage) THEN storage
       ELSE LET c == storage_get(storage[2], entity.index)
            IN IF IsOk(c) THEN c ELSE MissingComponent

\* get: looks the storage for T up first, then checks the entity.
get(e, entity, T) ==
    LET storage == storage_for(e, T)
    IN IF ~IsOk(storage) THEN storage
       ELSE IF ~IsOk(check_entity(e, entity)) THEN MissingEntity
       ELSE LET c == storage_get(storage[2], entity.index)
            IN IF IsOk(c) THEN c ELSE MissingComponent

\* insert that replaces the storage of T by a new one holding only this component.
insert_new_storage(e, entity, T, component) ==
    IF ~IsOk(check_entity(e, entity))
    THEN [ret |-> EntityDead, ecs |-> e]
    ELSE [ret |-> Ok,
          ecs |-> [e EXCEPT !.components =
                     [t \in DOMAIN e.components \cup {T} |->
                         IF t = T THEN storage_insert(StorageNew, entity.index, component)
                         ELSE e.components[t]]]]

\* insert that keeps the component an entity already has.
insert_keep_existing(e, entity, T, component) ==
    IF ~IsOk(check_entity(e, entity))
    THEN [ret |-> EntityDead, ecs |-> e]
    ELSE LET comps == storage_or_insert_for(e, T)
         IN [ret |-> Ok,
             ecs |-> [e EXCEPT !.components =
                        [comps EXCEPT ![T] =
                            IF IsOk(storage_get(@, entity.index)) THEN @
                            ELSE storage_insert(@, entity.index, component)]]]

\* insert without the check of the entity.
insert_unchecked(e, entity, T, component) ==
    LET comps == storage_or_insert_for(e, T)
    IN [ret |-> Ok,
        ecs |-> [e EXCEPT !.components =
                   [comps EXCEPT ![T] = storage_insert(@, entity.index, component)]]]

\* insert that gets the storage of T before it checks the entity.
insert_storage_first(e, entity, T, component) ==
    LET comps == storage_or_insert_for(e, T)
    IN IF ~IsOk(check_entity(e, entity))
       THEN [ret |-> EntityDead, ecs |-> [e EXCEPT !.components = comps]]
       ELSE [ret |-> Ok,
             ecs |-> [e EXCEPT !.components =
                        [comps EXCEPT ![T] = storage_insert(@, entity.index, component)]]]

insert(e, entity, T, component) ==
    IF ~IsOk(check_entity(e, entity))
    THEN [ret |-> EntityDead, ecs |-> e]
    ELSE LET comps == storage_or_insert_for(e, T)
         IN [ret |-> Ok,
             ecs |-> [e EXCEPT !.components =
                        [comps EXCEPT ![T] = storage_insert(@, entity.index, component)]]]

\* remove that reports Ok whatever the storage's remove returned.
remove_always_ok(e, entity, T) ==
    IF ~IsOk(check_entity(e, entity))
    THEN [ret |-> MissingEntity, ecs |-> e]
    ELSE LET storage == storage_mut_for(e, T)
         IN IF ~IsOk(storage)
            THEN [ret |-> storage, ecs |-> e]
            ELSE [ret |-> Ok,
                  ecs |-> [e EXCEPT !.components[T] =
                             storage_remove(storage[2], entity.index).storage]]

\* remove that drops the whole storage of T from the map.
remove_drops_storage(e, entity, T) ==
    IF ~IsOk(check_entity(e, entity))
    THEN [ret |-> MissingEntity, ecs |-> e]
    ELSE LET storage == storage_mut_for(e, T)
         IN IF ~IsOk(storage)
            THEN [ret |-> storage, ecs |-> e]
            ELSE IF storage_remove(storage[2], entity.index).removed
                 THEN [ret |-> Ok,
                       ecs |-> [e EXCEPT !.components =
                                  [t \in DOMAIN e.components \ {T} |-> e.components[t]]]]
                 ELSE [ret |-> MissingComponent, ecs |-> e]

remove(e, entity, T) ==
    IF ~IsOk(check_entity(e, entity))
    THEN [ret |-> MissingEntity, ecs |-> e]
    ELSE LET storage == storage_mut_for(e, T)
         IN IF ~IsOk(storage)
            THEN [ret |-> storage, ecs |-> e]
            ELSE LET r == storage_remove(storage[2], entity.index)
                 IN IF r.removed
                    THEN [ret |-> Ok, ecs |-> [e EXCEPT !.components[T] = r.storage]]
                    ELSE [ret |-> MissingComponent, ecs |-> e]

\* spawn_empty that returns the id allocate would give and leaves the
\* allocator as it was.
spawn_empty_keep_free(e) ==
    [ret |-> allocate(e.entities).id, ecs |-> e]

spawn_empty(e) ==
    LET a == allocate(e.entities)
    IN [ret |-> a.id, ecs |-> [e EXCEPT !.entities = a.entities]]

\* The loop of spawn_builder with a storage insert that always takes a new
\* dense slot.
RECURSIVE insert_drained_push(_, _, _)
insert_drained_push(e, entity, staged) ==
    IF staged = <<>> THEN e
    ELSE LET comps == storage_or_insert_for_untyped(e, Head(staged)[1])
             e1 == [e EXCEPT !.components =
                      [comps EXCEPT ![Head(staged)[1]] =
                          [sparse |-> [i \in DOMAIN @.sparse \cup {entity.index} |->
                                          IF i = entity.index THEN Len(@.dense) + 1
                                          ELSE @.sparse[i]],
                           dense |-> Append(@.dense, Head(staged)[2]),
                           backpointers |-> Append(@.backpointers, entity.index)]]]
         IN insert_drained_push(e1, entity, Tail(staged))

\* The loop of spawn_builder over the drained entries, in staging order.
RECURSIVE insert_drained(_, _, _)
insert_drained(e, entity, staged) ==
    IF staged = <<>> THEN e
    ELSE LET comps == storage_or_insert_for_untyped(e, Head(staged)[1])
             e1 == [e EXCEPT !.components =
                      [comps EXCEPT ![Head(staged)[1]] =
                          storage_insert_raw(@, entity.index, Head(staged)[2])]]
         IN insert_drained(e1, entity, Tail(staged))

\* EntityBuilder::drain yields the staged entries in staging order;
\* EntityBuilder::reset leaves the builder empty.
builder_drain(b) == b
builder_reset(b) == <<>>

\* spawn_builder that leaves the staged entries in the builder.
spawn_builder_no_reset(e, b) ==
    LET s == spawn_empty(e)
    IN [ret |-> s.ret,
        ecs |-> insert_drained(s.ecs, s.ret, builder_drain(b)),
        builder |-> b]

spawn_builder(e, b) ==
    LET s == spawn_empty(e)
    IN [ret |-> s.ret,
        ecs |-> insert_drained(s.ecs, s.ret, builder_drain(b)),
        builder |-> builder_reset(b)]

\* ComponentBundle::add_to_entity for a tuple: one typed insert per element,
\* in tuple order.
RECURSIVE add_to_entity(_, _, _)
add_to_entity(bundle, e, entity) ==
    IF bundle = <<>> THEN e
    ELSE add_to_entity(Tail(bundle),
                       insert(e, entity, Head(bundle)[1], Head(bundle)[2]).ecs,
                       entity)

\* spawn_bundle that adds only the first component of the tuple.
spawn_bundle_first_only(e, bundle) ==
    LET s == spawn_empty(e)
    IN [ret |-> s.ret,
        ecs |-> add_to_entity(IF bundle = <<>> THEN bundle ELSE <<Head(bundle)>>,
                              s.ecs, s.ret)]

spawn_bundle(e, bundle) ==
    LET s == spawn_empty(e)
    IN [ret |-> s.ret, ecs |-> add_to_entity(bundle, s.ecs, s.ret)]

\* despawn that frees the id and leaves its components in the storages.
despawn_no_purge(e, entity) ==
    LET d == deallocate(e.entities, entity)
    IN IF ~d.ok
       THEN [ret |-> EntityDead, ecs |-> e]
       ELSE [ret |-> Ok, ecs |-> [e EXCEPT !.entities = d.entities]]

\* despawn that frees the index and leaves its stored generation as it was.
despawn_keep_generation(e, entity) ==
    LET d == deallocate(e.entities, entity)
    IN IF ~d.ok
       THEN [ret |-> EntityDead, ecs |-> e]
       ELSE [ret |-> Ok,
             ecs |-> [components |->
                        [t \in DOMAIN e.components |->
                            storage_remove(e.components[t], entity.index).storage],
                      entities |-> [d.entities EXCEPT !.generations = e.entities.generations]]]

despawn(e, entity) ==
    LET d == deallocate(e.entities, entity)
    IN IF ~d.ok
       THEN [ret |-> EntityDead, ecs |-> e]
       ELSE [ret |-> Ok,
             ecs |-> [components |->
                        [t \in DOMAIN e.components |->
                            storage_remove(e.components[t], entity.index).storage],
                      entities |-> d.entities]]

\* EntityBuilder::add: stages one component.
builder_add(b, T, component) == Append(b, <<T, component>>)

\* ---------------------------------------------------------------- the calls

ecs == [components |-> components, entities |-> entities]

\* Ids a caller can pass: every id a spawn has returned, and one id whose
\* index was never allocated.
NeverIssued == EntityId(MaxEntities, 0)
EntityArgs == issued \cup {NeverIssued}

\* Tuples of components with pairwise different types.
Bundles ==
    {<<>>} \cup {<<p>> : p \in Types \X Values}
           \cup {b \in {<<p, q>> : p \in Types \X Values, q \in Types \X Values} :
                    b[1][1] # b[2][1]}

\* Whether allocate stays within the modelled indices.
CanSpawn == entities.free # <<>> \/ Len(entities.generations) < MaxEntities

About(e, T) == {x \in inserted : x[1] = e /\ x[2] = T}
AboutEntity(e) == {x \in inserted : x[1] = e}

\* The positions of a staging sequence that no later entry of the same type
\* follows.
LastStaged(b) ==
    {k \in DOMAIN b : \A j \in DOMAIN b : j > k => b[j][1] # b[k][1]}

Init ==
    /\ components = EcsNew.components
    /\ entities = EcsNew.entities
    /\ builder = <<>>
    /\ issued = {}
    /\ despawned = {}
    /\ inserted = {}
    /\ fresh = {}
    /\ NoWorld

\* get borrows the store immutably: it returns get(ecs, entity, T), a component
\* or one of the two errors, and changes nothing.
Get(entity, T) ==
    /\ get(ecs, entity, T) \in {MissingComponent, MissingEntity} \cup {OkVal(v) : v \in Values}
    /\ UNCHANGED vars

Insert(entity, T, component) ==
    LET r == insert(ecs, entity, T, component)
    IN /\ components' = r.ecs.components
       /\ entities' = r.ecs.entities
       /\ inserted' = (inserted \ About(entity, T))
                         \cup (IF IsOk(r.ret) THEN {<<entity, T, component>>} ELSE {})
       /\ fresh' = fresh \ {entity}
       /\ UNCHANGED <<builder, issued, despawned, worldVars>>

Remove(entity, T) ==
    LET r == remove(ecs, entity, T)
    IN /\ components' = r.ecs.components
       /\ entities' = r.ecs.entities
       /\ inserted' = inserted \ About(entity, T)
       /\ UNCHANGED <<builder, issued, despawned, fresh, worldVars>>

SpawnEmpty ==
    /\ CanSpawn
    /\ LET r == spawn_empty(ecs)
       IN /\ components' = r.ecs.components
          /\ entities' = r.ecs.entities
          /\ issued' = issued \cup {r.ret}
          /\ fresh' = fresh \cup {r.ret}
          /\ inserted' = inserted \ AboutEntity(r.ret)
          /\ UNCHANGED <<builder, despawned, worldVars>>

Stage(T, component) ==
    /\ Len(builder) < MaxStaged
    /\ builder' = builder_add(builder, T, component)
    /\ UNCHANGED <<components, entities, issued, despawned, inserted, fresh, worldVars>>

SpawnBuilder ==
    /\ CanSpawn
    /\ LET r == spawn_builder(ecs, builder)
       IN /\ components' = r.ecs.components
          /\ entities' = r.ecs.entities
          /\ builder' = r.builder
          /\ issued' = issued \cup {r.ret}
          /\ fresh' = IF builder = <<>> THEN fresh \cup {r.ret} ELSE fresh \ {r.ret}
          /\ inserted' = (inserted \ AboutEntity(r.ret))
                            \cup {<<r.ret, builder[k][1], builder[k][2]>> : k \in LastStaged(builder)}
          /\ UNCHANGED <<despawned, worldVars>>

SpawnBundle(bundle) ==
    /\ CanSpawn
    /\ LET r == spawn_bundle(ecs, bundle)
       IN /\ components' = r.ecs.components
          /\ entities' = r.ecs.entities
          /\ issued' = issued \cup {r.ret}
          /\ fresh' = IF bundle = <<>> THEN fresh \cup {r.ret} ELSE fresh \ {r.ret}
          /\ inserted' = (inserted \ AboutEntity(r.ret))
                            \cup {<<r.ret, bundle[k][1], bundle[k][2]>> : k \in DOMAIN bundle}
          /\ UNCHANGED <<builder, despawned, worldVars>>

\* A successful despawn is taken only while the index's generation is below
\* MaxGeneration; a failing despawn is always possible.
Despawn(entity) ==
    /\ IsOk(check_entity(ecs, entity)) => entities.generations[entity.index + 1] < MaxGeneration
    /\ LET r == despawn(ecs, entity)
       IN /\ components' = r.ecs.components
          /\ entities' = r.ecs.entities
          /\ despawned' = IF IsOk(r.ret) THEN despawned \cup {entity} ELSE despawned
          /\ inserted' = inserted \ AboutEntity(entity)
          /\ fresh' = fresh \ {entity}
          /\ UNCHANGED <<builder, issued, worldVars>>

Next ==
    \/ \E entity \in EntityArgs, T \in Types : Get(entity, T)
    \/ \E entity \in EntityArgs, T \in Types, component \in Values :
           Insert(entity, T, component)
    \/ \E entity \in EntityArgs, T \in Types : Remove(entity, T)
    \/ SpawnEmpty
    \/ \E T \in Types, component \in Values : Stage(T, component)
    \/ SpawnBuilder
    \/ \E bundle \in Bundles : SpawnBundle(bundle)
    \/ \E entity \in EntityArgs : Despawn(entity)

Spec == Init /\ [][Next]_vars

\* ------------------------------------------------------------------ claims

\* Ids that a spawn returned and no despawn has taken.
Live == issued \ despawned

DenseLen(e, T) == Len(e.components[T].dense)

\* C1: after despawn(e) succeeded, get::<T>(e) fails with EntityDead
\* (MissingEntity) for every type T, also one no storage exists for.
C1_DeadGetIsEntityDead ==
    \A e \in despawned, T \in Types : get(ecs, e, T) = MissingEntity

\* C2: a component put on (e, T) by a successful insert is what get::<T>(e)
\* returns for as long as no insert::<T>(e), remove::<T>(e) or despawn(e) is
\* called, whatever happens to other entities and types.
C2_InsertThenGet ==
    \A x \in inserted : get(ecs, x[1], x[2]) = OkVal(x[3])

\* Two entities hold the same type with their own values while a third id has
\* been despawned.
C2_Witness ==
    \E x \in inserted, y \in inserted :
        /\ x[1] # y[1] /\ x[2] = y[2] /\ x[3] # y[3]
        /\ despawned # {}
        /\ get(ecs, x[1], x[2]) = OkVal(x[3])

\* C3: in every reachable state, for every live e: insert(e, v1) then
\* insert(e, v2) leaves get::<T>(e) = v2, the dense length of T's storage as
\* after the first insert, and one remove::<T>(e) leaves e without T.
C3_InsertOverwrites ==
    \A e \in Live, T \in Types, v1 \in Values, v2 \in Values :
        LET s1 == insert(ecs, e, T, v1)
            s2 == insert(s1.ecs, e, T, v2)
            r == remove(s2.ecs, e, T)
        IN /\ s1.ret = Ok /\ s2.ret = Ok
           /\ get(s2.ecs, e, T) = OkVal(v2)
           /\ DenseLen(s2.ecs, T) = DenseLen(s1.ecs, T)
           /\ r.ret = Ok
           /\ get(r.ecs, e, T) = MissingComponent

\* An entity holds an inserted component next to another entity's, and
\* inserting a different value on it overwrites the slot.
C3_Witness ==
    \E x \in inserted, v2 \in Values :
        /\ v2 # x[3]
        /\ DenseLen(ecs, x[2]) = 2
        /\ get(insert(ecs, x[1], x[2], v2).ecs, x[1], x[2]) = OkVal(v2)
        /\ DenseLen(insert(ecs, x[1], x[2], v2).ecs, x[2]) = 2

\* C4: for a live e holding T, remove::<T>(e) returns Ok, then get::<T>(e) and
\* a second remove::<T>(e) fail with MissingComponent; on a live e that holds
\* no T, or when T has no storage, remove::<T>(e) fails with MissingComponent.
C4_RemoveOnce ==
    \A e \in Live, T \in Types :
        LET r1 == remove(ecs, e, T)
            r2 == remove(r1.ecs, e, T)
        IN /\ IsOk(get(ecs, e, T)) =>
                /\ r1.ret = Ok
                /\ get(r1.ecs, e, T) = MissingComponent
           /\ ~IsOk(get(ecs, e, T)) => r1.ret = MissingComponent /\ r1.ecs = ecs
           /\ T \notin DOMAIN components => r1.ret = MissingComponent
           /\ r2.ret = MissingComponent /\ r2.ecs = r1.ecs

\* A live entity was inserted on and holds nothing any more (its component
\* was removed), while another type has no storage at all.
C4_Witness ==
    \E e \in Live \ fresh :
        /\ \A T \in Types : get(ecs, e, T) = MissingComponent
        /\ \E T \in Types : T \in DOMAIN components /\ remove(ecs, e, T).ret = MissingComponent
        /\ \E T \in Types : T \notin DOMAIN components

C6_GenerationNonAliasing ==
    /\ \A e1 \in despawned :
          LET e2 == spawn_empty(ecs).ret
          IN e2.index = e1.index => e2.generation # e1.generation
    /\ \A e1 \in despawned, e2 \in Live :
          e2.index = e1.index =>
            /\ e2.generation # e1.generation
            /\ \A T \in Types :
                  /\ IsOk(get(ecs, e2, T)) => get(ecs, e1, T) = MissingEntity
                  /\ ~IsOk(remove(ecs, e1, T).ret)
                  /\ \A T2 \in Types :
                        get(remove(ecs, e1, T).ecs, e2, T2) = get(ecs, e2, T2)
                  /\ \A v \in Values :
                        /\ ~IsOk(insert(ecs, e1, T, v).ret)
                        /\ \A T2 \in Types :
                              get(insert(ecs, e1, T, v).ecs, e2, T2) = get(ecs, e2, T2)

\* A despawned id whose index is live again and holds a component, which the
\* stale id does not see.
C6_Witness ==
    \E e1 \in despawned, e2 \in Live, T \in Types :
        /\ e2.index = e1.index
        /\ IsOk(get(ecs, e2, T))
        /\ get(ecs, e1, T) = MissingEntity

\* C7: an id that came out of spawn_empty holds no component of any type until
\* something is inserted on it, and despawning any live entity and spawning
\* again yields an entity without components, whatever the despawned one held.
C7_FreshHoldsNothing ==
    /\ \A e \in fresh, T \in Types : get(ecs, e, T) = MissingComponent
    /\ \A e \in Live :
          LET s == spawn_empty(despawn(ecs, e).ecs)
          IN \A T \in Types : get(s.ecs, s.ret, T) = MissingComponent

\* A fresh id on a reused index while storages of every type are registered,
\* and a live entity holding every type whose despawn frees its index for an
\* entity that holds nothing.
C7_Witness ==
    /\ \E e \in fresh : e.generation > 0 /\ DOMAIN components = Types
    /\ \E e \in Live :
          /\ \A T \in Types : IsOk(get(ecs, e, T))
          /\ spawn_empty(despawn(ecs, e).ecs).ret.index = e.index

\* C8: remove::<T>(e) and despawn(e) of a live e change no other component:
\* every other (entity, type) pair reads as before, every inserted value of
\* another pair is still returned, and after a successful remove::<T>(e) the
\* still live e reads MissingComponent for T.
C8_SwapRemovePreservesSurvivors ==
    \A e \in Live, T \in Types :
        LET r == remove(ecs, e, T)
            d == despawn(ecs, e)
        IN /\ \A e2 \in issued, T2 \in Types :
                 (e2 # e \/ T2 # T) => get(r.ecs, e2, T2) = get(ecs, e2, T2)
           /\ \A x \in inserted :
                 (x[1] # e \/ x[2] # T) => get(r.ecs, x[1], x[2]) = OkVal(x[3])
           /\ IsOk(r.ret) => get(r.ecs, e, T) = MissingComponent
           /\ \A e2 \in issued \ {e}, T2 \in Types :
                 get(d.ecs, e2, T2) = get(ecs, e2, T2)
           /\ \A x \in inserted :
                 x[1] # e => get(d.ecs, x[1], x[2]) = OkVal(x[3])

\* Two live entities hold T with different values, the one in the first dense
\* slot is removed and the other one, moved into that slot, keeps its value.
C8_Witness ==
    \E x \in inserted, y \in inserted :
        /\ x[1] # y[1] /\ x[2] = y[2] /\ x[3] # y[3]
        /\ components[x[2]].sparse[x[1].index] = 1
        /\ components[x[2]].sparse[y[1].index] = 2
        /\ LET r == remove(ecs, x[1], x[2])
           IN /\ r.ecs.components[x[2]].backpointers = <<y[1].index>>
              /\ get(r.ecs, y[1], y[2]) = OkVal(y[3])
              /\ get(r.ecs, x[1], x[2]) = MissingComponent

\* The component a tuple holds for T, if any.
InBundle(bundle, T) == {k \in DOMAIN bundle : bundle[k][1] = T}

\* C9: spawn_bundle(bundle) returns an id that was never issued and is live,
\* which holds the bundle's value for each type of the tuple and
\* MissingComponent for every other type; the other live entities read as
\* before.
C9_SpawnBundleExact ==
    \A bundle \in Bundles :
        LET r == spawn_bundle(ecs, bundle)
        IN /\ r.ret \notin issued
           /\ IsOk(check_entity(r.ecs, r.ret))
           /\ \A T \in Types :
                 /\ \A k \in InBundle(bundle, T) :
                       get(r.ecs, r.ret, T) = OkVal(bundle[k][2])
                 /\ InBundle(bundle, T) = {} => get(r.ecs, r.ret, T) = MissingComponent
           /\ \A e \in Live, T \in Types : get(r.ecs, e, T) = get(ecs, e, T)

\* A one-component bundle spawned on a reused index next to a live entity
\* that holds both types: the new entity holds the bundle's type only.
C9_Witness ==
    \E e \in Live, bundle \in Bundles :
        /\ Len(bundle) = 1
        /\ \A T \in Types : IsOk(get(ecs, e, T))
        /\ entities.free # <<>>
        /\ LET r == spawn_bundle(ecs, bundle)
           IN /\ r.ret.generation > 0
              /\ get(r.ecs, r.ret, bundle[1][1]) = OkVal(bundle[1][2])
              /\ \E T \in Types : get(r.ecs, r.ret, T) = MissingComponent

\* C10: spawn_builder(builder) returns an id that was never issued and is
\* live, which holds for every staged type the value staged last for it, in
\* one slot, and no other type; the builder is empty on return, and a second
\* spawn_builder with it yields another entity, which holds nothing.
C10_SpawnBuilderDrains ==
    LET r == spawn_builder(ecs, builder)
        r2 == spawn_builder(r.ecs, r.builder)
    IN /\ r.ret \notin issued
       /\ IsOk(check_entity(r.ecs, r.ret))
       /\ \A T \in Types :
             /\ \A k \in LastStaged(builder) :
                   builder[k][1] = T => get(r.ecs, r.ret, T) = OkVal(builder[k][2])
             /\ (\A k \in DOMAIN builder : builder[k][1] # T) =>
                   get(r.ecs, r.ret, T) = MissingComponent
       /\ \A T \in DOMAIN r.ecs.components :
             Cardinality({k \in DOMAIN r.ecs.components[T].backpointers :
                            r.ecs.components[T].backpointers[k] = r.ret.index}) <= 1
       /\ r.builder = <<>>
       /\ r2.ret # r.ret
       /\ \A T \in Types : get(r2.ecs, r2.ret, T) = MissingComponent

\* The builder stages one type twice with different values while another
\* entity holds that type: the spawned entity gets the value staged last.
C10_Witness ==
    /\ Len(builder) = 2
    /\ builder[1][1] = builder[2][1]
    /\ builder[1][2] # builder[2][2]
    /\ \E e \in Live : IsOk(get(ecs, e, builder[1][1]))
    /\ LET r == spawn_builder(ecs, builder)
       IN /\ get(r.ecs, r.ret, builder[2][1]) = OkVal(builder[2][2])
          /\ DenseLen(r.ecs, builder[2][1]) = DenseLen(ecs, builder[2][1]) + 1

\* ===================================================== core/src/world/mod.rs

\* The entity store while the world is being exercised: a new, empty Ecs.
NoEcs ==
    /\ components = EcsNew.components
    /\ entities = EcsNew.entities
    /\ builder = <<>>
    /\ issued = {}
    /\ despawned = {}
    /\ inserted = {}
    /\ fresh = {}

ChunkPosition(x, z) == [x |-> x, z |-> z]
BlockPosition(x, y, z) == [x |-> x, y |-> y, z |-> z]

Blocks == {"Air", "Stone"}

\* Block positions the calls are made with: both sides of the chunk borders at
\* x = -16, 0 and 16, negative and non-negative z, and two heights.
BlockArgs ==
    {BlockPosition(x, 0, z) : x \in {-16, -1, 0, 15, 16}, z \in {-1, 0}}
        \cup {BlockPosition(0, 1, 0), BlockPosition(-1, 1, -1)}

ChunkArgs == {ChunkPosition(x, z) : x \in {-1, 0, 1}, z \in {-1, 0}}

\* x >> 4 on an i32 is an arithmetic shift: the floor of x / 16.
\* (x as usize) & 0xf keeps the low four bits of the two's complement: x mod 16
\* in 0..15.
Shr4(x) == x \div 16
Low4(x) == x % 16

\* BlockPosition::chunk_pos with a division that truncates towards zero.
block_chunk_pos_truncating(pos) ==
    ChunkPosition(IF pos.x >= 0 THEN pos.x \div 16 ELSE -((-pos.x) \div 16),
                  IF pos.z >= 0 THEN pos.z \div 16 ELSE -((-pos.z) \div 16))

\* BlockPosition::chunk_pos
block_chunk_pos(pos) == ChunkPosition(Shr4(pos.x), Shr4(pos.z))

\* chunk_relative_pos; y is taken as it is (the modelled heights are >= 0).
chunk_relative_pos(block_pos) == <<Low4(block_pos.x), block_pos.y, Low4(block_pos.z)>>

\* A chunk: the block of each of its cells; a new chunk is all Air.
Cells == {chunk_relative_pos(p) : p \in BlockArgs}
ChunkNew == [c \in Cells |-> "Air"]
chunk_block_at(chunk, rel) == chunk[rel]
chunk_set_block_at(chunk, rel, block) == [chunk EXCEPT ![rel] = block]

Some(v) == <<"Some", v>>
None == <<"None">>
IsSome(o) == o[1] = "Some"

\* ChunkMap::chunk_at / chunk_at_mut without the locking: the chunk, if loaded.
chunk_at(map, pos) == IF pos \in DOMAIN map THEN Some(map[pos]) ELSE None
chunk_at_mut(map, pos) == IF pos \in DOMAIN map THEN Some(map[pos]) ELSE None

\* ChunkMap::block_at
block_at(map, pos) ==
    LET rel == chunk_relative_pos(pos)
        chunk == chunk_at(map, block_chunk_pos(pos))
    IN IF IsSome(chunk) THEN Some(chunk_block_at(chunk[2], rel)) ELSE None

\* ChunkMap::set_block_at: the closure runs on the chunk when there is one, and
\* the call returns whether there was one.
set_block_at(map, pos, block) ==
    LET rel == chunk_relative_pos(pos)
        cpos == block_chunk_pos(pos)
        chunk == chunk_at_mut(map, cpos)
    IN IF IsSome(chunk)
       THEN [ret |-> TRUE,
             map |-> [map EXCEPT ![cpos] = chunk_set_block_at(chunk[2], rel, block)]]
       ELSE [ret |-> FALSE, map |-> map]

\* ChunkMap::insert: the chunk goes to its own position, replacing one there.
chunk_map_insert(map, cpos, chunk) ==
    [c \in DOMAIN map \cup {cpos} |-> IF c = cpos THEN chunk ELSE map[c]]

\* ChunkMap::remove
chunk_map_remove(map, cpos) ==
    [ret |-> cpos \in DOMAIN map,
     map |-> [c \in DOMAIN map \ {cpos} |-> map[c]]]

WorldInit ==
    /\ NoEcs
    /\ chunk_map = [c \in {} |-> ChunkNew]
    /\ loaded = {}
    /\ locks = [c \in {} |-> 0]
    /\ threads = [t \in {} |-> 0]
    /\ calc = [op |-> "none"]

ChunkInsert(cpos) ==
    /\ chunk_map' = chunk_map_insert(chunk_map, cpos, ChunkNew)
    /\ loaded' = loaded \cup {cpos}
    /\ UNCHANGED <<ecsVars, locks, threads, calc>>

ChunkRemove(cpos) ==
    /\ chunk_map' = chunk_map_remove(chunk_map, cpos).map
    /\ loaded' = loaded \ {cpos}
    /\ UNCHANGED <<ecsVars, locks, threads, calc>>

SetBlockAt(pos, block) ==
    /\ chunk_map' = set_block_at(chunk_map, pos, block).map
    /\ UNCHANGED <<ecsVars, loaded, locks, threads, calc>>

\* block_at borrows the map immutably and changes nothing.
BlockAt(pos) ==
    /\ block_at(chunk_map, pos) \in {None} \cup {Some(b) : b \in Blocks}
    /\ UNCHANGED vars

WorldNext ==
    \/ \E cpos \in ChunkArgs : ChunkInsert(cpos)
    \/ \E cpos \in ChunkArgs : ChunkRemove(cpos)
    \/ \E pos \in BlockArgs, block \in Blocks : SetBlockAt(pos, block)
    \/ \E pos \in BlockArgs : BlockAt(pos)

WorldSpec == WorldInit /\ [][WorldNext]_vars

\* The chunk a block position lies in: floor(x / 16), floor(z / 16).
ChunkOf(pos) == ChunkPosition(pos.x \div 16, pos.z \div 16)

MaxChunk == 2
MaxBlock == 17

ChunkCoords == (-MaxChunk)..MaxChunk

\* A Position's x and z are f64; the model keeps them in halves (x = h / 2),
\* so that there are whole and fractional coordinates on both sides of zero.
Halves == (-2 * MaxBlock)..(2 * MaxBlock)
Position(hx, hz) == [hx |-> hx, hz |-> hz]
IsWhole(h) == h % 2 = 0

Abs(n) == IF n >= 0 THEN n ELSE -n

\* f64::floor followed by `as i32`
floor(h) == h \div 2

\* i32 / i32 rounds towards zero.
i32_div(a, b) == IF a >= 0 THEN a \div b ELSE -((-a) \div b)

\* ChunkPosition::manhattan_distance
manhattan_distance(self, other) == Abs(self.x - other.z) + Abs(self.z - other.z)

\* Position::chunk_pos
position_chunk_pos(self) == ChunkPosition(i32_div(floor(self.hx), 16), i32_div(floor(self.hz), 16))

\* Position::block_pos (y is not modelled: no chunk position depends on it)
position_block_pos(self) == BlockPosition(floor(self.hx), 0, floor(self.hz))

CalcInit ==
    /\ NoEcs
    /\ NoWorld

ManhattanDistance(a, b) ==
    /\ calc' = [op |-> "manhattan_distance", self |-> a, other |-> b,
                ret |-> manhattan_distance(a, b)]
    /\ UNCHANGED <<ecsVars, chunk_map, loaded, locks, threads>>

PositionChunkPos(pos) ==
    /\ calc' = [op |-> "chunk_pos", self |-> pos, ret |-> position_chunk_pos(pos)]
    /\ UNCHANGED <<ecsVars, chunk_map, loaded, locks, threads>>

CalcNext ==
    \/ \E ax \in ChunkCoords, az \in ChunkCoords, bx \in ChunkCoords, bz \in ChunkCoords :
          ManhattanDistance(ChunkPosition(ax, az), ChunkPosition(bx, bz))
    \/ \E hx \in Halves, hz \in Halves : PositionChunkPos(Position(hx, hz))

CalcSpec == CalcInit /\ [][CalcNext]_vars

\* C12: manhattan_distance(a, b) is |a.x - b.x| + |a.z - b.z| for all chunk
\* positions a and b, so it is symmetric and 0 exactly when a = b.
C12_ManhattanDistance ==
    calc.op = "manhattan_distance" =>
        LET a == calc.self
            b == calc.other
        IN /\ calc.ret = Abs(a.x - b.x) + Abs(a.z - b.z)
           /\ calc.ret = manhattan_distance(b, a)
           /\ (calc.ret = 0) <=> (a = b)

\* C13: for a position with whole x and z, negative ones included,
\* Position::chunk_pos is the chunk position of its block position, which is
\* (floor(x / 16), floor(z / 16)).
C13_PositionChunkPos ==
    (calc.op = "chunk_pos" /\ IsWhole(calc.self.hx) /\ IsWhole(calc.self.hz)) =>
        /\ calc.ret = block_chunk_pos(position_block_pos(calc.self))
        /\ calc.ret = ChunkPosition(calc.self.hx \div 32, calc.self.hz \div 32)

\* --------------------------------------- ChunkMap shared between threads

MaxThreads == 2
Threads == 1..MaxThreads

\* While threads share the map (&self) nobody can insert or remove (&mut self):
\* the loaded chunks are fixed. Two chunks are loaded, (1, 0) is not.
ConcLoaded == {ChunkPosition(0, 0), ChunkPosition(-1, -1)}
ConcArgs ==
    {BlockPosition(0, 0, 0), BlockPosition(15, 0, 0),
     BlockPosition(-1, 0, -1), BlockPosition(16, 0, 0)}

\* RwLock<Chunk>: who holds it shared, and who holds it exclusively (0: nobody).
\* Which of several waiting threads gets a free lock is left open.
RwLockNew == [readers |-> {}, writer |-> 0]
can_read(lock) == lock.writer = 0
\* A write lock that is granted while readers hold the lock.
can_write_ignoring_readers(lock) == lock.writer = 0
can_write(lock) == lock.writer = 0 /\ lock.readers = {}
lock_read(lock, t) == [lock EXCEPT !.readers = @ \cup {t}]
lock_write(lock, t) == [lock EXCEPT !.writer = t]
guard_drop(lock, t) ==
    [readers |-> lock.readers \ {t}, writer |-> IF lock.writer = t THEN 0 ELSE lock.writer]

Idle == [pc |-> "idle"]
ThreadChunk(t) == block_chunk_pos(threads[t].pos)

ConcInit ==
    /\ NoEcs
    /\ chunk_map = [c \in ConcLoaded |-> ChunkNew]
    /\ loaded = ConcLoaded
    /\ locks = [c \in ConcLoaded |-> RwLockNew]
    /\ threads = [t \in Threads |-> Idle]
    /\ calc = [op |-> "none"]

\* A thread enters block_at(pos).
CallBlockAt(t, pos) ==
    /\ threads[t].pc = "idle"
    /\ threads' = [threads EXCEPT ![t] = [pc |-> "chunk_at", op |-> "block_at", pos |-> pos]]
    /\ UNCHANGED <<ecsVars, chunk_map, loaded, locks, calc>>

\* A thread enters set_block_at(pos, block).
CallSetBlockAt(t, pos, block) ==
    /\ threads[t].pc = "idle"
    /\ threads' = [threads EXCEPT ![t] =
            [pc |-> "chunk_at", op |-> "set_block_at", pos |-> pos, block |-> block]]
    /\ UNCHANGED <<ecsVars, chunk_map, loaded, locks, calc>>

\* chunk_at: no chunk, and block_at returns None; or lock.read(), which waits
\* while the chunk's lock is held exclusively.
ChunkAt(t) ==
    /\ threads[t].pc = "chunk_at"
    /\ threads[t].op = "block_at"
    /\ \/ /\ ThreadChunk(t) \notin DOMAIN chunk_map
          /\ threads' = [threads EXCEPT ![t] = Idle]
          /\ UNCHANGED locks
       \/ /\ ThreadChunk(t) \in DOMAIN chunk_map
          /\ can_read(locks[ThreadChunk(t)])
          /\ locks' = [locks EXCEPT ![ThreadChunk(t)] = lock_read(@, t)]
          /\ threads' = [threads EXCEPT ![t].pc = "map"]
    /\ UNCHANGED <<ecsVars, chunk_map, loaded, calc>>

\* chunk_at_mut: no chunk, and set_block_at returns false; or lock.write(),
\* which waits while the chunk's lock is held at all.
ChunkAtMut(t) ==
    /\ threads[t].pc = "chunk_at"
    /\ threads[t].op = "set_block_at"
    /\ \/ /\ ThreadChunk(t) \notin DOMAIN chunk_map
          /\ threads' = [threads EXCEPT ![t] = Idle]
          /\ UNCHANGED locks
       \/ /\ ThreadChunk(t) \in DOMAIN chunk_map
          /\ can_write(locks[ThreadChunk(t)])
          /\ locks' = [locks EXCEPT ![ThreadChunk(t)] = lock_write(@, t)]
          /\ threads' = [threads EXCEPT ![t].pc = "map"]
    /\ UNCHANGED <<ecsVars, chunk_map, loaded, calc>>

\* The closure given to map runs on the guarded chunk.
Closure(t) ==
    /\ threads[t].pc = "map"
    /\ \/ /\ threads[t].op = "block_at"
          /\ chunk_block_at(chunk_map[ThreadChunk(t)], chunk_relative_pos(threads[t].pos)) \in Blocks
          /\ UNCHANGED chunk_map
       \/ /\ threads[t].op = "set_block_at"
          /\ chunk_map' = [chunk_map EXCEPT ![ThreadChunk(t)] =
                chunk_set_block_at(@, chunk_relative_pos(threads[t].pos), threads[t].block)]
    /\ threads' = [threads EXCEPT ![t].pc = "drop"]
    /\ UNCHANGED <<ecsVars, loaded, locks, calc>>

\* The guard is dropped at the end of the closure, and the call returns.
GuardDrop(t) ==
    /\ threads[t].pc = "drop"
    /\ locks' = [locks EXCEPT ![ThreadChunk(t)] = guard_drop(@, t)]
    /\ threads' = [threads EXCEPT ![t] = Idle]
    /\ UNCHANGED <<ecsVars, chunk_map, loaded, calc>>

ThreadStep(t) == ChunkAt(t) \/ ChunkAtMut(t) \/ Closure(t) \/ GuardDrop(t)

ConcNext ==
    \/ \E t \in Threads, pos \in ConcArgs : CallBlockAt(t, pos)
    \/ \E t \in Threads, pos \in ConcArgs, block \in Blocks : CallSetBlockAt(t, pos, block)
    \/ \E t \in Threads : ChunkAt(t)
    \/ \E t \in Threads : ChunkAtMut(t)
    \/ \E t \in Threads : Closure(t)
    \/ \E t \in Threads : GuardDrop(t)

ConcSpec == ConcInit /\ [][ConcNext]_vars

InCall(t) == threads[t].pc # "idle"
Holding(t) == threads[t].pc \in {"map", "drop"}
Waiting(t) == threads[t].pc = "chunk_at" /\ ThreadChunk(t) \in DOMAIN chunk_map

\* C14: chunks are locked independently. A call whose chunk no other call is
\* working on can take its lock whatever locks are held on other chunks; on
\* one chunk a thread holding the lock for set_block_at is the only holder; a
\* thread that is not inside a call holds no lock; a holder can always go on,
\* and a call that waits waits for a holder of its own chunk, so that no state
\* with a call in progress is a deadlock.
C14_IndependentChunkLocks ==
    /\ \A t \in Threads :
          (Waiting(t) /\ \A u \in Threads \ {t} : InCall(u) => ThreadChunk(u) # ThreadChunk(t))
              => ENABLED ThreadStep(t)
    /\ \A t \in Threads : \A u \in Threads \ {t} :
          (Holding(t) /\ Holding(u) /\ ThreadChunk(t) = ThreadChunk(u))
              => threads[t].op = "block_at" /\ threads[u].op = "block_at"
    /\ \A t \in Threads, c \in DOMAIN locks :
          ~Holding(t) => t \notin locks[c].readers /\ locks[c].writer # t
    /\ \A t \in Threads : Holding(t) => ENABLED ThreadStep(t)
    /\ \A t \in Threads :
          (InCall(t) /\ ~ENABLED ThreadStep(t))
              => \E u \in Threads \ {t} : Holding(u) /\ ThreadChunk(u) = ThreadChunk(t)
    /\ (\E t \in Threads : InCall(t)) => \E t \in Threads : ENABLED ThreadStep(t)

\* Thread 1 holds chunk (0, 0) for set_block_at; thread 2 waits for the same
\* chunk with block_at and cannot go on.
C14_Witness ==
    /\ threads[1].pc = "map" /\ threads[1].op = "set_block_at"
    /\ threads[1].pos = BlockPosition(0, 0, 0)
    /\ threads[2].pc = "chunk_at" /\ threads[2].op = "block_at"
    /\ threads[2].pos = BlockPosition(15, 0, 0)
    /\ ~ENABLED ThreadStep(2)

\* ------------------------------------------------- invariants of the store

\* Indices on the free list, and indices of live ids.
FreeIndices(ents) == {ents.free[k] : k \in DOMAIN ents.free}
LiveIndices == {id.index : id \in Live}
Occupied(e) == UNION {DOMAIN e.components[T].sparse : T \in DOMAIN e.components}

\* C15: every entity index that occupies a slot in a storage is the index of
\* a live id; no storage holds a component for a free index.
C15_StoredIndicesAreLive ==
    \A T \in DOMAIN components :
        /\ DOMAIN components[T].sparse \subseteq LiveIndices
        /\ \A k \in DOMAIN components[T].backpointers :
              components[T].backpointers[k] \in LiveIndices
        /\ DOMAIN components[T].sparse \cap FreeIndices(entities) = {}

\* A live entity holds a component next to another entity's, and its despawn
\* frees its index and takes the index out of every storage.
C15_Witness ==
    \E e \in Live, T \in Types :
        /\ IsOk(get(ecs, e, T))
        /\ DenseLen(ecs, T) = 2
        /\ LET r == despawn(ecs, e)
           IN /\ e.index \in FreeIndices(r.ecs.entities)
              /\ e.index \notin Occupied(r.ecs)
              /\ Occupied(r.ecs) # {}

\* C16: at most one live id per index; the free list holds no live index and
\* no index twice; a spawn returns an id that is not live at the call.
C16_OneLiveIdPerIndex ==
    /\ \A a \in Live, b \in Live : a.index = b.index => a = b
    /\ FreeIndices(entities) \cap LiveIndices = {}
    /\ Cardinality(FreeIndices(entities)) = Len(entities.free)
    /\ spawn_empty(ecs).ret \notin Live
    /\ spawn_builder(ecs, builder).ret \notin Live
    /\ \A bundle \in Bundles : spawn_bundle(ecs, bundle).ret \notin Live

\* One index is live in its second generation, the other index is free after
\* a despawn, and the next spawn reuses it with a new generation.
C16_Witness ==
    \E a \in Live, d \in despawned, f \in despawned :
        /\ a.index = d.index /\ a.generation = d.generation + 1
        /\ f.index # a.index
        /\ f.index \in FreeIndices(entities)
        /\ spawn_empty(ecs).ret = EntityId(f.index, f.generation + 1)

StoredGeneration(ents, i) == ents.generations[i + 1]
Allocated(ents) == 0..(Len(ents.generations) - 1)

\* C17: in every step, the stored generation of an index changes only when
\* its live id is despawned, and then by +1, leaving the index free; an index
\* allocated for the first time starts at generation 0; an id is handed out
\* only for an index that was free (or new), carries the stored generation,
\* and follows the id despawned last on that index by one generation.
C17_GenerationStep ==
    /\ Allocated(entities) \subseteq Allocated(entities')
    /\ \A i \in Allocated(entities) :
          StoredGeneration(entities', i) # StoredGeneration(entities, i) =>
              /\ StoredGeneration(entities', i) = StoredGeneration(entities, i) + 1
              /\ EntityId(i, StoredGeneration(entities, i)) \in Live
              /\ EntityId(i, StoredGeneration(entities, i)) \in despawned'
              /\ i \in FreeIndices(entities')
    /\ \A id \in despawned' \ despawned :
          /\ StoredGeneration(entities', id.index) = id.generation + 1
          /\ id.index \in FreeIndices(entities')
    /\ \A i \in Allocated(entities') \ Allocated(entities) :
          /\ StoredGeneration(entities', i) = 0
          /\ EntityId(i, 0) \in issued' \ issued
    /\ \A id \in issued' \ issued :
          /\ id.index \in FreeIndices(entities) \/ id.index \notin Allocated(entities)
          /\ id.index \notin FreeIndices(entities')
          /\ id.generation = StoredGeneration(entities', id.index)
          /\ id.index \in Allocated(entities) =>
                /\ id.generation = StoredGeneration(entities, id.index)
                /\ EntityId(id.index, id.generation - 1) \in despawned
    /\ (issued' = issued /\ despawned' = despawned) => entities' = entities

C17_IndexCycle == [][C17_GenerationStep]_vars

\* Index 0 went through Live(0), Free(1), Live(1), Free(2) and is live again
\* with generation 2.
C17_Witness ==
    /\ EntityId(0, 0) \in despawned
    /\ EntityId(0, 1) \in despawned
    /\ EntityId(0, 2) \in Live
    /\ StoredGeneration(entities, 0) = 2

\* C18: an insert, remove or despawn that returns an error leaves the
\* allocator, the registered storages and every stored component as they were.
C18_FailedCallChangesNothing ==
    \A e \in EntityArgs :
        /\ LET r == despawn(ecs, e) IN ~IsOk(r.ret) => r.ecs = ecs
        /\ \A T \in Types :
              /\ LET r == remove(ecs, e, T) IN ~IsOk(r.ret) => r.ecs = ecs
              /\ \A v \in Values :
                    LET r == insert(ecs, e, T, v) IN ~IsOk(r.ret) => r.ecs = ecs

\* A despawned id and a live entity that holds one type, while the other type
\* has no storage: insert on the dead id for the unregistered type fails, as
\* do its despawn, and remove on the live entity for both the unregistered
\* type and, on another live entity, a registered type it does not hold.
C18_Witness ==
    \E d \in despawned, e \in Live, f \in Live, T \in Types, U \in Types :
        /\ T \in DOMAIN components /\ U \notin DOMAIN components
        /\ IsOk(get(ecs, e, T))
        /\ insert(ecs, d, U, 1).ret = EntityDead
        /\ despawn(ecs, d).ret = EntityDead
        /\ remove(ecs, d, T).ret = MissingEntity
        /\ remove(ecs, e, U).ret = MissingComponent
        /\ remove(ecs, f, T).ret = MissingComponent

\* C19: in every storage the dense and backpointer arrays have the same
\* length, which is the number of indices holding the component; every
\* occupied sparse entry s -> k has k within the dense array and
\* backpointers[k] = s; no two indices share a dense slot.
C19_StorageConsistent ==
    \A T \in DOMAIN components :
        LET s == components[T]
        IN /\ Len(s.dense) = Len(s.backpointers)
           /\ Len(s.dense) = Cardinality(DOMAIN s.sparse)
           /\ \A i \in DOMAIN s.sparse :
                 /\ s.sparse[i] \in 1..Len(s.dense)
                 /\ s.backpointers[s.sparse[i]] = i
           /\ \A i \in DOMAIN s.sparse, j \in DOMAIN s.sparse :
                 s.sparse[i] = s.sparse[j] => i = j

\* A storage holds two entities, the one in the first dense slot is removed,
\* and the other one has moved into its slot.
C19_Witness ==
    \E T \in DOMAIN components, e \in Live :
        /\ DenseLen(ecs, T) = 2
        /\ components[T].sparse[e.index] = 1
        /\ LET s == remove(ecs, e, T).ecs.components[T]
           IN /\ Len(s.dense) = 1 /\ Len(s.backpointers) = 1
              /\ \E i \in DOMAIN s.sparse : i # e.index /\ s.sparse[i] = 1

\* ----------------------------------------------- generation wraparound

\* Successful despawns left on index 0 before its generation wraps.
WrapCycles == 2

FirstId == EntityId(0, 0)

\* The store after 2^32 - WrapCycles despawn/respawn cycles on index 0 that
\* began with FirstId: the index is free, its stored generation is
\* 2^32 - WrapCycles, and no component is stored. Of the ids issued so far the
\* caller has kept the first.
WrapInit ==
    /\ components = EcsNew.components
    /\ entities = [generations |-> <<GenerationMax + 1 - WrapCycles>>, free |-> <<0>>]
    /\ builder = <<>>
    /\ issued = {FirstId}
    /\ despawned = {FirstId}
    /\ inserted = {}
    /\ fresh = {}
    /\ NoWorld

\* The calls of the cycle: spawn, use through an id, despawn.
WrapNext ==
    \/ SpawnEmpty
    \/ \E entity \in EntityArgs, T \in Types, component \in Values :
           Insert(entity, T, component)
    \/ \E entity \in EntityArgs, T \in Types : Get(entity, T)
    \/ \E entity \in EntityArgs : Despawn(entity)

WrapSpec == WrapInit /\ [][WrapNext]_vars

\* C20: the despawn of a live id of the largest generation succeeds like any
\* other, leaves the stored generation at 0 (the increment is modulo 2^32)
\* and the index free, so that the next spawn returns the index with
\* generation 0; on index 0, after its 2^32 cycles, that id is the id issued
\* first, and the first id, despawned long ago, is accepted as live again.
C20_GenerationWraps ==
    /\ \A i \in Allocated(entities) \ FreeIndices(entities) :
          LET g == StoredGeneration(entities, i)
              d == despawn(ecs, EntityId(i, g))
          IN /\ d.ret = Ok
             /\ i \in FreeIndices(d.ecs.entities)
             /\ StoredGeneration(d.ecs.entities, i) = (IF g = GenerationMax THEN 0 ELSE g + 1)
             /\ spawn_empty(d.ecs).ret = EntityId(i, IF g = GenerationMax THEN 0 ELSE g + 1)
    /\ (EntityId(0, GenerationMax) \in despawned /\ 0 \notin FreeIndices(entities)
            /\ StoredGeneration(entities, 0) = 0)
          => /\ FirstId \in despawned
             /\ check_entity(ecs, FirstId) = Ok
             /\ \A T \in Types, v \in Values : insert(ecs, FirstId, T, v).ret = Ok

\* The id of generation 2^32 - 1 on index 0 was despawned, the index was
\* spawned again, and the first id reads the component of the entity that now
\* lives on the index.
C20_Witness ==
    /\ EntityId(0, GenerationMax) \in despawned
    /\ FirstId \in despawned
    /\ StoredGeneration(entities, 0) = 0
    /\ 0 \notin FreeIndices(entities)
    /\ \E T \in Types : IsOk(get(ecs, FirstId, T))

====
